---- MODULE Spec2Model ----
(***************************************************************************)
(* Model of scripts/fetch_burnt_areas.py: the EFFIS burnt-area bundle      *)
(* updater.  Three specifications share the variables below:               *)
(*   SpecFeature  parse_burnt_area_feature applied to one GML element      *)
(*   SpecParse    parse_gml_response applied to one response body          *)
(*   Spec         main(): the two-year fetch/save loop, run repeatedly     *)
(*                against a cache directory that persists between runs     *)
(* Text is modelled as TLA+ strings and handled character by character;    *)
(* Python's None is the empty sequence and a present value v is <<v>>.     *)
(***************************************************************************)
EXTENDS Integers, Sequences, FiniteSets, TLC

VARIABLES
    pc,             \* position of the running function
    elem,           \* SpecFeature: the ba:burnt_area_{year} element passed in
    result,         \* SpecFeature: value returned by parse_burnt_area_feature
    gml_text,       \* SpecParse: the response body handed to the parser
    members,        \* SpecParse: wfs:member elements the loop has yet to visit
    year,           \* season year being parsed
    features,       \* the list `features` (parser result, main's local)
    current_year,   \* main: datetime.now().year read at the start of the run
    previous_year,  \* main: current_year - 1
    todo,           \* main: years the for loop has still to visit
    success,        \* main: the `success` flag
    exit_status,    \* main: value returned to sys.exit, None while running
    disk,           \* assets/cache: year -> None (no file) or Some(bundle)
    github_output,  \* the file $GITHUB_OUTPUT names, None when it is unset
    clock,          \* wall clock: calendar year and a UTC instant
    disk_before,    \* history: the cache as the current run found it
    fetched,        \* history: year -> what fetch_burnt_areas met and returned
    saved           \* history: years save_bundle was called for in this run

parserVars == <<elem, result, gml_text, members, year>>

mainVars == <<current_year, previous_year, todo, success, exit_status, disk,
              github_output, clock, disk_before, fetched, saved>>

vars == <<pc, features, parserVars, mainVars>>

----------------------------------------------------------------------------
(* Bounds of the model *)

MaxTokens == 7       \* longest generated posList, in values
MaxMembers == 3      \* most wfs:member elements in a parsed response
MaxFetched == 2      \* most wfs:member elements in a response main receives
MaxRuns == 2         \* invocations of the script
BaseYear == 2026     \* calendar year of the first invocation

(* Python's None / a present value *)
None == <<>>
Some(v) == <<v>>

Min(a, b) == IF a < b THEN a ELSE b
Max(a, b) == IF a > b THEN a ELSE b

----------------------------------------------------------------------------
(* Text primitives *)

\* the character at position i (1-based), "" past either end
CharAt(s, i) == IF 1 <= i /\ i <= Len(s) THEN SubSeq(s, i, i) ELSE ""

Digits == {"0", "1", "2", "3", "4", "5", "6", "7", "8", "9"}

DigitVal(c) ==
    CASE c = "0" -> 0 [] c = "1" -> 1 [] c = "2" -> 2 [] c = "3" -> 3
      [] c = "4" -> 4 [] c = "5" -> 5 [] c = "6" -> 6 [] c = "7" -> 7
      [] c = "8" -> 8 [] c = "9" -> 9

DigitStr(n) ==
    CASE n = 0 -> "0" [] n = 1 -> "1" [] n = 2 -> "2" [] n = 3 -> "3"
      [] n = 4 -> "4" [] n = 5 -> "5" [] n = 6 -> "6" [] n = 7 -> "7"
      [] n = 8 -> "8" [] n = 9 -> "9"

IsSpace(c) == c = " "

\* s[:n]
Prefix(s, n) == SubSeq(s, 1, Min(n, Len(s)))

RECURSIVE LStrip(_)
LStrip(s) ==
    IF Len(s) > 0 /\ IsSpace(CharAt(s, 1))
    THEN LStrip(SubSeq(s, 2, Len(s)))
    ELSE s

RECURSIVE RStrip(_)
RStrip(s) ==
    IF Len(s) > 0 /\ IsSpace(CharAt(s, Len(s)))
    THEN RStrip(SubSeq(s, 1, Len(s) - 1))
    ELSE s

\* str.strip()
Strip(s) == RStrip(LStrip(s))

\* length of the run of non-space characters starting at position i
RECURSIVE WordLen(_, _)
WordLen(s, i) ==
    IF i > Len(s) \/ IsSpace(CharAt(s, i)) THEN 0 ELSE 1 + WordLen(s, i + 1)

\* str.split(): the maximal runs of non-space characters, in order
RECURSIVE SplitFrom(_, _)
SplitFrom(s, i) ==
    IF i > Len(s) THEN <<>>
    ELSE IF IsSpace(CharAt(s, i)) THEN SplitFrom(s, i + 1)
    ELSE <<SubSeq(s, i, i + WordLen(s, i) - 1)>>
            \o SplitFrom(s, i + WordLen(s, i))

Split(s) == SplitFrom(s, 1)

----------------------------------------------------------------------------
(* float(x): a decimal literal becomes the number m / 10^e, kept as the    *)
(* record [m, e] with no trailing zero in the fraction, so that "5.0" and  *)
(* "5" are the same number.  Anything else raises ValueError: <<>>.        *)

RECURSIVE AllDigits(_)
AllDigits(s) ==
    Len(s) = 0 \/ (CharAt(s, 1) \in Digits /\ AllDigits(SubSeq(s, 2, Len(s))))

RECURSIVE DigitsValue(_)
DigitsValue(s) ==
    IF Len(s) = 0 THEN 0
    ELSE 10 * DigitsValue(SubSeq(s, 1, Len(s) - 1)) + DigitVal(CharAt(s, Len(s)))

\* position of the first "." in s, or 0
RECURSIVE DotPos(_, _)
DotPos(s, i) ==
    IF i > Len(s) THEN 0
    ELSE IF CharAt(s, i) = "." THEN i ELSE DotPos(s, i + 1)

RECURSIVE Normalise(_, _)
Normalise(m, e) ==
    IF e > 0 /\ m % 10 = 0 THEN Normalise(m \div 10, e - 1)
    ELSE [m |-> m, e |-> e]

Unsigned(s) ==
    LET d    == DotPos(s, 1)
        int  == IF d = 0 THEN s ELSE SubSeq(s, 1, d - 1)
        frac == IF d = 0 THEN "" ELSE SubSeq(s, d + 1, Len(s))
    IN  IF AllDigits(int) /\ AllDigits(frac) /\ Len(int) + Len(frac) > 0
        THEN Some(Normalise(DigitsValue(int \o frac), Len(frac)))
        ELSE None

Float(x) ==
    LET s    == Strip(x)
        neg  == Len(s) > 0 /\ CharAt(s, 1) = "-"
        sign == Len(s) > 0 /\ CharAt(s, 1) \in {"-", "+"}
        u    == Unsigned(IF sign THEN SubSeq(s, 2, Len(s)) ELSE s)
    IN  IF u = None THEN None
        ELSE IF neg THEN Some([m |-> 0 - u[1].m, e |-> u[1].e])
        ELSE u

RECURSIVE Pow10(_)
Pow10(n) == IF n = 0 THEN 1 ELSE 10 * Pow10(n - 1)

\* sum of a list of numbers, as Python's sum() over the floats
RECURSIVE DecSum(_)
DecSum(ds) ==
    IF Len(ds) = 0 THEN [m |-> 0, e |-> 0]
    ELSE LET a == ds[1]
             b == DecSum(Tail(ds))
             e == Max(a.e, b.e)
         IN  Normalise(a.m * Pow10(e - a.e) + b.m * Pow10(e - b.e), e)

----------------------------------------------------------------------------
(* datetime.strptime(s, '%Y-%m-%d').isoformat()[:10]                       *)
(* The format compiles to the regular expression                           *)
(*   (\d\d\d\d)-(1[0-2]|0[1-9]|[1-9])-(3[01]|[12]\d|0[1-9]|[1-9]| [1-9])   *)
(* matched at the start of s; text left over after the match, and a day    *)
(* or year outside the calendar, raise ValueError: <<>>.                   *)

NonZero == Digits \ {"0"}

\* length of the %m match at position i: the first alternative that
\* matches and is followed by "-", or 0
MonthLen(s, i) ==
    LET c1 == CharAt(s, i)
        c2 == CharAt(s, i + 1)
    IN  IF c1 = "1" /\ c2 \in {"0", "1", "2"} /\ CharAt(s, i + 2) = "-" THEN 2
        ELSE IF c1 = "0" /\ c2 \in NonZero /\ CharAt(s, i + 2) = "-" THEN 2
        ELSE IF c1 \in NonZero /\ c2 = "-" THEN 1
        ELSE 0

\* length of the %d match at position i: the first alternative that matches
DayLen(s, i) ==
    LET c1 == CharAt(s, i)
        c2 == CharAt(s, i + 1)
    IN  IF c1 = "3" /\ c2 \in {"0", "1"} THEN 2
        ELSE IF c1 \in {"1", "2"} /\ c2 \in Digits THEN 2
        ELSE IF c1 = "0" /\ c2 \in NonZero THEN 2
        ELSE IF c1 \in NonZero THEN 1
        ELSE IF c1 = " " /\ c2 \in NonZero THEN 2
        ELSE 0

IsLeap(y) == y % 4 = 0 /\ (y % 100 # 0 \/ y % 400 = 0)

DaysInMonth(y, m) ==
    IF m = 2 THEN (IF IsLeap(y) THEN 29 ELSE 28)
    ELSE IF m \in {4, 6, 9, 11} THEN 30 ELSE 31

Pad2(n) == DigitStr(n \div 10) \o DigitStr(n % 10)

Pad4(n) == DigitStr(n \div 1000) \o DigitStr((n \div 100) % 10)
              \o DigitStr((n \div 10) % 10) \o DigitStr(n % 10)

strptime_isoformat(s) ==
    IF ~(Len(s) >= 5 /\ AllDigits(SubSeq(s, 1, 4)) /\ CharAt(s, 5) = "-")
    THEN None
    ELSE LET ml == MonthLen(s, 6)
             dl == DayLen(s, 7 + ml)
             yv == DigitsValue(SubSeq(s, 1, 4))
             mv == DigitsValue(SubSeq(s, 6, 5 + ml))
             dv == DigitsValue(Strip(SubSeq(s, 7 + ml, 6 + ml + dl)))
         IN  IF ml = 0 \/ dl = 0 THEN None
             ELSE IF Len(s) # 6 + ml + dl THEN None
             ELSE IF yv < 1 \/ dv > DaysInMonth(yv, mv) THEN None
             ELSE Some(Pad4(yv) \o "-" \o Pad2(mv) \o "-" \o Pad2(dv))

----------------------------------------------------------------------------
(* The feature extractor.  An element is the record                        *)
(*   [id, posList, area_ha, firedate]                                      *)
(* where id is the gml:id attribute ("" when missing) and the other three  *)
(* are child elements: None when the child is absent, Some(text) when it   *)
(* is present (text "" for a child without text).                          *)

\* Element.findtext(path, default)
findtext(child, default) == IF child = None THEN default ELSE child[1]

\* [float(x) for x in coords_text.split()]; None when a float() raises
RECURSIVE FloatAll(_)
FloatAll(toks) ==
    IF Len(toks) = 0 THEN Some(<<>>)
    ELSE LET f    == Float(toks[1])
             rest == FloatAll(Tail(toks))
         IN  IF f = None \/ rest = None THEN None
             ELSE Some(<<f[1]>> \o rest[1])

\* PairUp keeping the source order inside each pair
RECURSIVE PairUpUnswapped(_, _)
PairUpUnswapped(coords_list, i) ==
    IF i >= Len(coords_list) - 1 THEN <<>>
    ELSE LET lat == coords_list[i + 1]
             lon == coords_list[i + 2]
         IN  <<<<lat, lon>>>> \o PairUpUnswapped(coords_list, i + 2)

\* PairUp over range(0, len(coords_list), 2), a last unpaired value taking
\* the first value as its partner
RECURSIVE PairUpWrapped(_, _)
PairUpWrapped(coords_list, i) ==
    IF i >= Len(coords_list) THEN <<>>
    ELSE LET lat == coords_list[i + 1]
             lon == coords_list[((i + 1) % Len(coords_list)) + 1]
         IN  <<<<lon, lat>>>> \o PairUpWrapped(coords_list, i + 2)

\* for i in range(0, len(coords_list) - 1, 2): append [lon, lat]
\* (i is the 0-based loop index)
RECURSIVE PairUp(_, _)
PairUp(coords_list, i) ==
    IF i >= Len(coords_list) - 1 THEN <<>>
    ELSE LET lat == coords_list[i + 1]
             lon == coords_list[i + 2]
         IN  <<<<lon, lat>>>> \o PairUp(coords_list, i + 2)

\* parse_fire_date keeping the raw text whatever its length
parse_fire_date_keep_short(fire_date_str) ==
    IF fire_date_str = "" THEN None
    ELSE LET strict == strptime_isoformat(Prefix(fire_date_str, 10))
         IN  IF strict # None THEN strict
             ELSE Some(Prefix(fire_date_str, 10))

\* lines 129-134
parse_fire_date(fire_date_str) ==
    IF fire_date_str = "" THEN None
    ELSE LET strict == strptime_isoformat(Prefix(fire_date_str, 10))
         IN  IF strict # None THEN strict
             ELSE IF Len(fire_date_str) >= 10
                  THEN Some(Prefix(fire_date_str, 10))
                  ELSE None

\* parse_area_ha falling back to 0 when float() raises
parse_area_ha_lenient(child) ==
    LET area_text == findtext(child, "0")
        parsed == Float(IF area_text = "" THEN "0" ELSE area_text)
    IN  IF parsed = None THEN Some([m |-> 0, e |-> 0]) ELSE parsed

\* line 125: float(elem.findtext('.//ba:area_ha', '0', NAMESPACES) or '0');
\* None when float() raises
parse_area_ha(child) ==
    LET area_text == findtext(child, "0")
    IN  Float(IF area_text = "" THEN "0" ELSE area_text)

\* sum(xs) / len(xs), kept as the exact quotient sum / n
Mean(xs) == [sum |-> DecSum(xs), n |-> Len(xs)]

\* a threshold one below the program's
MinPointsLow == 3 - 1

\* line 121: fewest boundary points of a feature
MinPoints == 3

\* Returns None (skip) or Some(feature).  Every exception raised inside
\* the try block is caught by `except Exception` and becomes None.
parse_burnt_area_feature(e, y) ==
    IF e.posList = None \/ e.posList[1] = "" THEN None
    ELSE
    LET coords_text == Strip(e.posList[1])
        coords_list == FloatAll(Split(coords_text))
    IN  IF coords_list = None THEN None
        ELSE
        LET boundary_points == PairUp(coords_list[1], 0)
            area_ha == parse_area_ha(e.area_ha)
            fire_date_str == findtext(e.firedate, "")
            lons == [k \in 1..Len(boundary_points) |-> boundary_points[k][1]]
            lats == [k \in 1..Len(boundary_points) |-> boundary_points[k][2]]
        IN  IF Len(boundary_points) < MinPoints THEN None
            ELSE IF area_ha = None THEN None
            ELSE Some([id |-> e.id,
                       centroid |-> <<Mean(lons), Mean(lats)>>,
                       boundaryPoints |-> boundary_points,
                       areaHectares |-> area_ha[1],
                       fireDate |-> parse_fire_date(fire_date_str),
                       seasonYear |-> y])

----------------------------------------------------------------------------
(* The parser.  A response body is the record [wellformed, members]:       *)
(* wellformed is whether ET.fromstring accepts the text, members are the   *)
(* wfs:member elements in document order, each the sequence of the         *)
(* ba:burnt_area_<tag> elements below it, [tag, el], in document order.    *)

\* member.find('.//ba:burnt_area_{year}'): the first match, or None
RECURSIVE find(_, _)
find(member, y) ==
    IF Len(member) = 0 THEN None
    ELSE IF member[1].tag = y THEN Some(member[1].el)
    ELSE find(Tail(member), y)

\* parse_member giving up the features collected so far when an
\* extraction fails
parse_member_reset(fs, member, y) ==
    LET ba_elem == find(member, y)
    IN  IF ba_elem = None THEN fs
        ELSE LET feature == parse_burnt_area_feature(ba_elem[1], y)
             IN  IF feature # None THEN Append(fs, feature[1]) ELSE <<>>

\* one iteration of the loop over the members (lines 88-95): the value of
\* `features` after it
parse_member(fs, member, y) ==
    LET ba_elem == find(member, y)
    IN  IF ba_elem = None THEN fs
        ELSE LET feature == parse_burnt_area_feature(ba_elem[1], y)
             IN  IF feature # None THEN Append(fs, feature[1]) ELSE fs

RECURSIVE parse_members(_, _, _)
parse_members(fs, ms, y) ==
    IF Len(ms) = 0 THEN fs
    ELSE parse_members(parse_member(fs, ms[1], y), Tail(ms), y)

parse_gml_response(gml, y) ==
    IF ~gml.wellformed THEN <<>>
    ELSE parse_members(<<>>, gml.members, y)

----------------------------------------------------------------------------
(* SpecFeature: parse_burnt_area_feature on one element.                   *)

RECURSIVE Join(_)
Join(toks) ==
    IF Len(toks) = 0 THEN ""
    ELSE IF Len(toks) = 1 THEN toks[1]
    ELSE toks[1] \o " " \o Join(Tail(toks))

\* posList tokens: two numbers and one token float() rejects
Tokens == {"1", "-2", "x"}

TokenLists == UNION {[1..n -> Tokens] : n \in 0..MaxTokens}

\* a ring of pairwise different values; its first six are the posList of
\* a three-point polygon "49.1 -5.2 49.3 -5.0 49.2 -5.1"
Ring == <<"49.1", "-5.2", "49.3", "-5.0", "49.2", "-5.1", "50.5", "-4.4",
          "51", "-3.75">>

RingLists == {SubSeq(Ring, 1, n) : n \in 0..Min(Len(Ring), MaxTokens + 1)}

PosTexts ==
    {Join(ts) : ts \in TokenLists \cup RingLists}
        \cup {" ", "  1 -2   1 -2 1  -2 ", " 1 -2 1 -2 "}

Areas == {None, Some(""), Some("12.5"), Some("0"), Some(" 7 "), Some("-3"),
          Some("abc"), Some(" "), Some("12,5")}

FireDates ==
    {None, Some(""), Some("2024-01-15"), Some("2024-01-15T10:30:00"),
     Some("2024-1-5"), Some("2024-02-29"), Some("2023-02-29"),
     Some("2024-02-30"), Some("2024-13-01"), Some("0000-01-01"),
     Some("15/01/2024"), Some("15/01/2024 10:00"), Some("abc"),
     Some("2024-1-5T00:00:00"), Some("2024-3- 7"), Some("2024-01-1x"),
     Some("20240115"), Some("2024-12-31Z")}

Ids == {"", "ba.1"}

Years == {BaseYear - 1, BaseYear}

\* every geometry with a few attribute combinations
GeomElems ==
    {[id |-> "ba.1", posList |-> p, area_ha |-> a.area, firedate |-> a.date] :
        p \in {None} \cup {Some(t) : t \in PosTexts},
        a \in {[area |-> Some("12.5"), date |-> Some("2024-01-15")],
               [area |-> None, date |-> None],
               [area |-> Some("abc"), date |-> Some("abc")]}}

\* every attribute combination with a few geometries
AttrElems ==
    {[id |-> i, posList |-> Some(p), area_ha |-> a, firedate |-> d] :
        i \in Ids,
        p \in {Join(SubSeq(Ring, 1, 6)), Join(SubSeq(Ring, 1, 7)),
               Join(SubSeq(Ring, 1, 4))},
        a \in Areas, d \in FireDates}

Elems == GeomElems \cup AttrElems

NoElem == [id |-> "", posList |-> None, area_ha |-> None, firedate |-> None]

\* variables a specification does not use keep these values
MainIdle ==
    /\ current_year = 0 /\ previous_year = 0 /\ todo = <<>>
    /\ success = TRUE /\ exit_status = None /\ disk = <<>>
    /\ github_output = None /\ clock = [year |-> 0, utc |-> 0]
    /\ disk_before = <<>> /\ fetched = <<>> /\ saved = {}

InitFeature ==
    /\ pc = "call"
    /\ elem \in Elems
    /\ year \in Years
    /\ result = None
    /\ gml_text = None
    /\ members = <<>>
    /\ features = <<>>
    /\ MainIdle

\* the call feature = parse_burnt_area_feature(ba_elem, year)
ParseFeature ==
    /\ pc = "call"
    /\ result' = parse_burnt_area_feature(elem, year)
    /\ pc' = "return"
    /\ UNCHANGED <<elem, gml_text, members, year, features, mainVars>>

NextFeature == ParseFeature

SpecFeature == InitFeature /\ [][NextFeature]_vars

----------------------------------------------------------------------------
(* Properties of the feature extractor (SpecFeature)                       *)

Zero == [m |-> 0, e |-> 0]

\* the whitespace-separated values of the element's posList
SourceTokens == IF elem.posList = None THEN <<>> ELSE Split(elem.posList[1])

AllNumeric == \A k \in 1..Len(SourceTokens) : Float(SourceTokens[k]) # None

SourceValue(k) == Float(SourceTokens[k])[1]

\* the posList yields at least three coordinate pairs
ValidPolygon == AllNumeric /\ Len(SourceTokens) \div 2 >= 3

AreaAbsent == elem.area_ha = None
AreaEmpty == elem.area_ha # None /\ elem.area_ha[1] = ""
AreaUnparseable ==
    elem.area_ha # None /\ elem.area_ha[1] # "" /\ Float(elem.area_ha[1]) = None
AreaUsable == ~AreaUnparseable

Returned == pc = "return"
Emitted == pc = "return" /\ result # None

\* C3: a posList of 2K numeric values lat1 lon1 ... latK lonK (K >= 3), on
\* an element whose area field does not stop the extraction, yields exactly
\* K boundary points in source order, the k-th being [lon_k, lat_k].
C3_PairsSwappedInOrder ==
    (Returned /\ ValidPolygon /\ AreaUsable /\ Len(SourceTokens) % 2 = 0)
        => /\ result # None
           /\ Len(result[1].boundaryPoints) = Len(SourceTokens) \div 2
           /\ \A k \in 1..(Len(SourceTokens) \div 2) :
                 result[1].boundaryPoints[k]
                     = <<SourceValue(2 * k), SourceValue(2 * k - 1)>>

\* a polygon of pairwise different values was extracted
C3_Witness ==
    /\ Emitted
    /\ SourceTokens = SubSeq(Ring, 1, 6)
    /\ result[1].boundaryPoints
          = << <<[m |-> -52, e |-> 1], [m |-> 491, e |-> 1]>>,
               <<[m |-> -5, e |-> 0], [m |-> 493, e |-> 1]>>,
               <<[m |-> -51, e |-> 1], [m |-> 492, e |-> 1]>> >>

\* C10: an odd number n of numeric values is not rejected: the last value
\* is dropped, floor(n/2) points are built from the first n-1 values, and
\* the feature is emitted when floor(n/2) >= 3 (fewer points: no feature).
C10_OddValueDropped ==
    (Returned /\ AllNumeric /\ AreaUsable /\ Len(SourceTokens) % 2 = 1)
        => LET n == Len(SourceTokens)
           IN  IF n \div 2 >= 3
               THEN /\ result # None
                    /\ Len(result[1].boundaryPoints) = n \div 2
                    /\ 2 * Len(result[1].boundaryPoints) = n - 1
                    /\ \A k \in 1..(n \div 2) :
                          result[1].boundaryPoints[k]
                              = <<SourceValue(2 * k), SourceValue(2 * k - 1)>>
               ELSE result = None

\* seven values in, three points out
C10_Witness ==
    /\ Emitted
    /\ AllNumeric
    /\ Len(SourceTokens) = 7
    /\ Len(result[1].boundaryPoints) = 3

\* C5 as stated: with a valid polygon the feature is emitted with area 0
\* whenever the area field is absent, empty or not parseable.
C5_Original ==
    (Returned /\ ValidPolygon /\ (AreaAbsent \/ AreaEmpty \/ AreaUnparseable))
        => (result # None /\ result[1].areaHectares = Zero)

\* C5 amended: with a valid polygon the feature is emitted with area 0 when
\* the area field is absent or empty; when the field holds text that is not
\* a number, float() raises and no feature is emitted.
C5_AreaDefault ==
    /\ (Returned /\ ValidPolygon /\ (AreaAbsent \/ AreaEmpty))
          => (result # None /\ result[1].areaHectares = Zero)
    /\ (Returned /\ ValidPolygon /\ AreaUnparseable) => result = None

\* both halves happen: an empty area field defaulted to 0, and ...
C5_Witness ==
    /\ Emitted
    /\ AreaEmpty
    /\ result[1].areaHectares = Zero

\* ... a valid polygon with area text "abc" was skipped
C5_SkipSeen ==
    /\ Returned
    /\ ValidPolygon
    /\ elem.area_ha = Some("abc")
    /\ result = None

\* shape dddd-dd-dd
IsIsoDate(s) ==
    /\ Len(s) = 10
    /\ \A i \in {1, 2, 3, 4, 6, 7, 9, 10} : CharAt(s, i) \in Digits
    /\ CharAt(s, 5) = "-" /\ CharAt(s, 8) = "-"

DateAbsent == elem.firedate = None \/ elem.firedate[1] = ""
DateText == elem.firedate[1]
DateStrict == strptime_isoformat(Prefix(DateText, 10))

\* C6 as stated: null when absent or empty, the YYYY-MM-DD form when the
\* first 10 characters parse, otherwise the raw text cut to 10 characters;
\* the feature is always emitted.
C6_Original ==
    (Returned /\ ValidPolygon /\ AreaUsable)
        => /\ result # None
           /\ IF DateAbsent THEN result[1].fireDate = None
              ELSE IF DateStrict # None
                   THEN result[1].fireDate = DateStrict
                   ELSE result[1].fireDate = Some(Prefix(DateText, 10))

\* C6 amended: as stated, except that text shorter than 10 characters that
\* does not parse gives null, not the raw text.
C6_FireDate ==
    (Returned /\ ValidPolygon /\ AreaUsable)
        => /\ result # None
           /\ IF DateAbsent THEN result[1].fireDate = None
              ELSE IF DateStrict # None
                   THEN /\ result[1].fireDate = DateStrict
                        /\ IsIsoDate(result[1].fireDate[1])
                   ELSE IF Len(DateText) >= 10
                        THEN result[1].fireDate = Some(Prefix(DateText, 10))
                        ELSE result[1].fireDate = None

\* a long unparseable date kept as its first 10 characters
C6_Witness ==
    /\ Emitted
    /\ elem.firedate = Some("15/01/2024 10:00")
    /\ result[1].fireDate = Some("15/01/2024")

----------------------------------------------------------------------------
(* SpecParse: parse_gml_response on one response body, one loop iteration  *)
(* per step.  After an iteration elem and result hold the element the      *)
(* iteration found (NoElem when it found none) and what                    *)
(* parse_burnt_area_feature returned for it.                               *)

El(i, p, a, d) == [id |-> i, posList |-> p, area_ha |-> a, firedate |-> d]

GoodA(t) == [tag |-> t, el |-> El("ba.1", Some(Join(SubSeq(Ring, 1, 6))),
                                   Some("12.5"), Some("2024-01-15"))]
GoodB(t) == [tag |-> t, el |-> El("ba.2", Some(Join(SubSeq(Ring, 1, 7))),
                                   None, Some("abc"))]
BadToken(t) == [tag |-> t, el |-> El("ba.3", Some("1 -2 x 1 -2 1"),
                                     Some("3"), None)]
ShortRing(t) == [tag |-> t, el |-> El("ba.4", Some("1 -2 1 -2"),
                                      Some("3"), None)]
NoPosList(t) == [tag |-> t, el |-> El("ba.5", None, Some("3"), None)]
BadArea(t) == [tag |-> t, el |-> El("ba.6", Some(Join(SubSeq(Ring, 1, 6))),
                                    Some("abc"), None)]

\* the wfs:member elements a parsed response is built from
MemberPool ==
    {<<>>, <<GoodA(BaseYear)>>, <<GoodB(BaseYear)>>, <<GoodA(BaseYear - 1)>>,
     <<BadToken(BaseYear)>>, <<ShortRing(BaseYear)>>, <<NoPosList(BaseYear)>>,
     <<BadArea(BaseYear)>>, <<GoodA(BaseYear - 1), GoodB(BaseYear)>>,
     <<ShortRing(BaseYear), GoodA(BaseYear)>>}

SeqsUpTo(S, n) == UNION {[1..k -> S] : k \in 0..n}

Malformed == [wellformed |-> FALSE, members |-> <<>>]

Docs == {[wellformed |-> TRUE, members |-> ms] :
            ms \in SeqsUpTo(MemberPool, MaxMembers)} \cup {Malformed}

InitParse ==
    /\ pc = "call"
    /\ gml_text \in Docs
    /\ year \in Years
    /\ members = <<>>
    /\ elem = NoElem
    /\ result = None
    /\ features = <<>>
    /\ MainIdle

\* lines 79-88: features = [], ET.fromstring, root.findall
ParseStart ==
    /\ pc = "call"
    /\ features' = <<>>
    /\ IF gml_text.wellformed
       THEN pc' = "loop" /\ members' = gml_text.members
       ELSE pc' = "return" /\ members' = <<>>
    /\ UNCHANGED <<elem, result, gml_text, year, mainVars>>

\* lines 88-95: one member
ParseMember ==
    /\ pc = "loop"
    /\ Len(members) > 0
    /\ LET ba_elem == find(members[1], year)
       IN  /\ elem' = IF ba_elem = None THEN NoElem ELSE ba_elem[1]
           /\ result' = IF ba_elem = None THEN None
                        ELSE parse_burnt_area_feature(ba_elem[1], year)
    /\ features' = parse_member(features, members[1], year)
    /\ members' = Tail(members)
    /\ UNCHANGED <<pc, gml_text, year, mainVars>>

\* line 97: return features
ParseReturn ==
    /\ pc = "loop"
    /\ Len(members) = 0
    /\ pc' = "return"
    /\ UNCHANGED <<features, parserVars, mainVars>>

NextParse == ParseStart \/ ParseMember \/ ParseReturn

SpecParse == InitParse /\ [][NextParse]_vars

----------------------------------------------------------------------------
(* Properties of the parser (SpecParse)                                    *)

\* coordinate pairs the element's posList yields (none when it is missing
\* or has no text)
NumPairs == Len(SourceTokens) \div 2

\* C4: every feature the parser has collected has at least 3 boundary
\* points, and an element whose posList yields fewer than 3 coordinate
\* pairs (missing and empty posList included) produces no feature.
C4_AtLeastThreePoints ==
    /\ \A k \in 1..Len(features) : Len(features[k].boundaryPoints) >= 3
    /\ result # None => Len(result[1].boundaryPoints) >= 3
    /\ NumPairs < 3 => result = None

\* a two-pair polygon was dropped after another feature had been kept
C4_Witness ==
    /\ pc = "loop"
    /\ elem.posList = Some("1 -2 1 -2")
    /\ result = None
    /\ Len(features) >= 1

\* the element member i of the response offers for the requested year
Offered(i) == find(gml_text.members[i], year)

\* members with a sub-element of the requested type whose extraction succeeds
WellFormed ==
    {i \in 1..Len(gml_text.members) :
        Offered(i) # None /\ parse_burnt_area_feature(Offered(i)[1], year) # None}

\* the k-th well-formed member, in document order
NthWellFormed(k) ==
    CHOOSE i \in WellFormed : Cardinality({j \in WellFormed : j < i}) = k - 1

\* C7: the parser returns exactly one feature per well-formed member, in
\* document order; the other members contribute nothing and change nothing.
C7_OnePerWellFormedMember ==
    (pc = "return" /\ gml_text.wellformed)
        => /\ Len(features) = Cardinality(WellFormed)
           /\ \A k \in 1..Len(features) :
                 features[k]
                     = parse_burnt_area_feature(Offered(NthWellFormed(k))[1],
                                                year)[1]

\* two different features returned in document order around a failed member
C7_Witness ==
    /\ pc = "return"
    /\ Len(gml_text.members) = 3
    /\ WellFormed = {1, 3}
    /\ Len(features) = 2
    /\ features[1].id = "ba.2"
    /\ features[2].id = "ba.1"

----------------------------------------------------------------------------
(* The fetcher and the bundle writer.  An HTTP exchange is the record      *)
(* [kind, status, body]: kind "transport_error" when requests.get raises,  *)
(* otherwise "http" with the status code and the parsed-or-not body.       *)

\* Response.raise_for_status(): raises HTTPError for 4xx and 5xx
raise_for_status(status) == 400 <= status /\ status < 600

\* lines 63-74; the exchange stands for what requests.get meets
fetch_burnt_areas(resp, y) ==
    IF resp.kind = "transport_error" THEN <<>>
    ELSE IF raise_for_status(resp.status) THEN <<>>
    ELSE parse_gml_response(resp.body, y)

\* save_bundle counting one feature too many
save_bundle_miscount(fs, y, output_dir, now) ==
    [output_dir EXCEPT ![y] =
        Some([year |-> y, region |-> "UK", generatedAt |-> now,
              featureCount |-> Len(fs) + 1, features |-> fs])]

\* save_bundle adding to the features of the file already there
save_bundle_merge(fs, y, output_dir, now) ==
    LET old == IF output_dir[y] = None THEN <<>> ELSE output_dir[y][1].features
    IN  [output_dir EXCEPT ![y] =
            Some([year |-> y, region |-> "UK", generatedAt |-> now,
                  featureCount |-> Len(old \o fs), features |-> old \o fs])]

\* lines 156-175: the cache directory after the bundle file of year y has
\* been opened with mode 'w' and written; now is datetime.utcnow()
save_bundle(fs, y, output_dir, now) ==
    [output_dir EXCEPT ![y] =
        Some([year |-> y, region |-> "UK", generatedAt |-> now,
              featureCount |-> Len(fs), features |-> fs])]

----------------------------------------------------------------------------
(* Spec: main(), invoked up to MaxRuns times against the same cache        *)
(* directory, which is taken to be writable.                               *)

\* the wall clock passes at most one new year
LastYear == BaseYear + 1

AllYears == (BaseYear - 1)..LastYear

PolyA(t) == [tag |-> t, el |-> El("ba.1", Some("1 2 3 4 5 6"), Some("12.5"),
                                   Some("2024-01-15"))]
PolyB(t) == [tag |-> t, el |-> El("ba.2", Some("1 2 3 4 5 6 7"), None, None)]
TwoPairs(t) == [tag |-> t, el |-> El("ba.4", Some("1 2 3 4"), Some("3"), None)]

\* the wfs:member elements of the bodies the service answers a request for
\* year y with: up to MaxFetched of these, or the single member PolyB
FetchPool(y) == {<<PolyA(y)>>, <<TwoPairs(y)>>}

Bodies(y) ==
    {[wellformed |-> TRUE, members |-> ms] :
        ms \in SeqsUpTo(FetchPool(y), MaxFetched) \cup {<< <<PolyB(y)>> >>}}

Statuses == {200, 404, 503}

Responses(y) ==
    {[kind |-> "transport_error", status |-> 0, body |-> Malformed]}
    \cup {[kind |-> "http", status |-> st, body |-> Malformed] :
             st \in Statuses}
    \cup {[kind |-> "http", status |-> 200, body |-> b] : b \in Bodies(y)}

\* what the fetch met, for the history
Outcome(resp) ==
    IF resp.kind = "transport_error" THEN "transport_error"
    ELSE IF raise_for_status(resp.status) THEN "http_error"
    ELSE IF ~resp.body.wellformed THEN "malformed_xml"
    ELSE "parsed"

Init ==
    /\ pc = "idle"
    /\ clock = [year |-> BaseYear, utc |-> 0]
    /\ disk = [y \in AllYears |-> None]
    /\ github_output \in {None, Some(<<>>)}
    /\ current_year = 0 /\ previous_year = 0 /\ todo = <<>>
    /\ success = TRUE /\ exit_status = None
    /\ disk_before = [y \in AllYears |-> None]
    /\ fetched = <<>> /\ saved = {}
    /\ features = <<>>
    /\ elem = NoElem /\ result = None /\ gml_text = None /\ members = <<>>
    /\ year = 0

\* a new calendar year begins between two invocations
NewYear ==
    /\ pc \in {"idle", "exited"}
    /\ clock.year < LastYear
    /\ clock' = [clock EXCEPT !.year = @ + 1]
    /\ UNCHANGED <<pc, features, parserVars, current_year, previous_year,
                   todo, success, exit_status, disk, github_output,
                   disk_before, fetched, saved>>

\* lines 180-195: read the clock, set success, enter the loop
main_start ==
    /\ pc \in {"idle", "exited"}
    /\ clock.utc < MaxRuns
    /\ clock' = [clock EXCEPT !.utc = @ + 1]
    /\ current_year' = clock.year
    /\ previous_year' = clock.year - 1
    /\ todo' = <<clock.year - 1, clock.year>>
    /\ success' = TRUE
    /\ exit_status' = None
    /\ features' = <<>>
    /\ disk_before' = disk
    /\ fetched' = <<>>
    /\ saved' = {}
    /\ pc' = "for"
    /\ UNCHANGED <<parserVars, disk, github_output>>

\* the flag cleared by an empty fetch
success_cleared_on_empty(flag, fs) == flag /\ fs # <<>>

\* lines 198-202: the flag after the branch on `features` (no branch
\* assigns it)
success_after(flag, fs) == flag

\* the loop left at an empty fetch
todo_break_on_empty(years, fs) == IF fs = <<>> THEN <<>> ELSE Tail(years)

\* line 195: the years left after one iteration; nothing in the body
\* breaks out of the loop
todo_after(years, fs) == Tail(years)

\* lines 195-202: one iteration of the loop over [previous, current]
main_iteration ==
    /\ pc = "for"
    /\ Len(todo) > 0
    /\ \E resp \in Responses(todo[1]) :
          /\ features' = fetch_burnt_areas(resp, todo[1])
          /\ fetched' = (todo[1] :> [outcome |-> Outcome(resp),
                                     features |-> features']) @@ fetched
    /\ IF features' # <<>>
       THEN /\ disk' = save_bundle(features', todo[1], disk, clock.utc)
            /\ saved' = saved \cup {todo[1]}
       ELSE UNCHANGED <<disk, saved>>
    /\ success' = success_after(success, features')
    /\ todo' = todo_after(todo, features')
    /\ UNCHANGED <<pc, parserVars, current_year, previous_year, exit_status,
                   github_output, clock, disk_before>>

\* line 213: return 0 if success else 1
exit_code(flag) == IF flag THEN 0 ELSE 1

\* lines 204-213: the CI outputs and the return
main_finish ==
    /\ pc = "for"
    /\ Len(todo) = 0
    /\ github_output' =
          IF github_output = None THEN None
          ELSE Some(github_output[1]
                      \o <<[key |-> "current_year", value |-> current_year],
                           [key |-> "previous_year", value |-> previous_year]>>)
    /\ exit_status' = Some(exit_code(success))
    /\ pc' = "exited"
    /\ UNCHANGED <<features, parserVars, current_year, previous_year, todo,
                   success, disk, clock, disk_before, fetched, saved>>

Next == NewYear \/ main_start \/ main_iteration \/ main_finish

Spec == Init /\ [][Next]_vars

----------------------------------------------------------------------------
(* Properties of main (Spec)                                               *)

Exited == pc = "exited"

Processed == {previous_year, current_year}

\* the bundle save_bundle builds in this run from the list fs for year y
FreshBundle(y, fs) ==
    [year |-> y, region |-> "UK", generatedAt |-> clock.utc,
     featureCount |-> Len(fs), features |-> fs]

\* C1: a run fetches both years whatever either fetch returns; a year whose
\* fetch comes back empty (transport error, HTTP error status, malformed
\* XML, or no feature extracted) gets no save_bundle call and its file is
\* left as the run found it, and a year whose fetch is non-empty is saved.
C1_EmptyYearSkippedOtherProcessed ==
    /\ \A y \in DOMAIN fetched :
          /\ fetched[y].outcome # "parsed" => fetched[y].features = <<>>
          /\ fetched[y].features = <<>>
                => (y \notin saved /\ disk[y] = disk_before[y])
          /\ fetched[y].features # <<>>
                => (y \in saved /\ disk[y] # None
                       /\ disk[y][1].features = fetched[y].features)
    /\ Exited => DOMAIN fetched = Processed

\* the previous year's request failed, the current year was still saved
C1_Witness ==
    /\ Exited
    /\ fetched[previous_year].outcome = "http_error"
    /\ disk[previous_year] = None
    /\ current_year \in saved
    /\ disk[current_year] # None

\* C2: every bundle file in the cache has featureCount equal to the length
\* of its features array.
C2_FeatureCountMatches ==
    \A y \in DOMAIN disk :
        disk[y] # None => disk[y][1].featureCount = Len(disk[y][1].features)

\* a bundle of two features is on disk
C2_Witness ==
    \E y \in DOMAIN disk :
        /\ disk[y] # None
        /\ Len(disk[y][1].features) = 2
        /\ disk[y][1].featureCount = 2

\* C8: a run that reaches its end returns 0, whatever the fetches returned.
C8_AlwaysExitZero ==
    /\ Exited => exit_status = Some(0)
    /\ exit_status # Some(1)

\* a run in which both fetches came back empty returned 0
C8_Witness ==
    /\ Exited
    /\ exit_status = Some(0)
    /\ \A y \in Processed : fetched[y].features = <<>>
    /\ fetched[previous_year].outcome = "transport_error"

\* C9 as stated: after a run, the bundle file of each processed year holds
\* exactly the features fetched in this run, and is of this run.
C9_Original ==
    Exited =>
        \A y \in Processed :
            disk[y] # None
                => /\ disk[y][1].features = fetched[y].features
                   /\ disk[y][1].generatedAt = clock.utc

\* C9 amended: after a run, the file of each processed year whose fetch was
\* non-empty is exactly the bundle built from this run's features, with
\* nothing of the file it replaced; the file of a year whose fetch was
\* empty is whatever the run found there, possibly an earlier run's bundle.
C9_RebuiltWhenFetched ==
    Exited =>
        \A y \in Processed :
            IF fetched[y].features # <<>>
            THEN disk[y] = Some(FreshBundle(y, fetched[y].features))
            ELSE disk[y] = disk_before[y]

\* a bundle an earlier run left was replaced by a different one
C9_Witness ==
    /\ Exited
    /\ \E y \in Processed :
          /\ disk_before[y] # None
          /\ fetched[y].features # <<>>
          /\ disk_before[y][1].features # fetched[y].features
          /\ disk[y][1].features = fetched[y].features
          /\ disk[y][1].generatedAt = clock.utc

\* an earlier run's bundle outlived a run whose fetch for its year was empty
C9_StaleSeen ==
    /\ Exited
    /\ \E y \in Processed :
          /\ fetched[y].features = <<>>
          /\ disk[y] # None
          /\ disk[y][1].generatedAt < clock.utc

====
